---- MODULE Spec2Model ----
(***************************************************************************)
(* AzureOpenAIGenerator (haystack/components/generators/azure.py):         *)
(* construction (__init__), to_dict and from_dict, over an explicit        *)
(* process environment.                                                    *)
(*                                                                         *)
(* Python values are tagged records.  A str is a sequence of tokens (a     *)
(* token is one character, or an opaque piece of text that is never        *)
(* parsed), so "" is Str(<<>>) and None is a value of its own.             *)
(***************************************************************************)
EXTENDS Integers, Sequences, FiniteSets, TLC

VARIABLES env, comps, docs, res, nextId

vars == <<env, comps, docs, res, nextId>>

\* Longest value (in characters) of OPENAI_TIMEOUT / OPENAI_MAX_RETRIES explored.
MaxStrLen == 3
\* Number of client objects that may be built in one run.
MaxClients == 3

---------------------------------------------------------------------------
\* Python values

None == [t |-> "None"]
Str(s) == [t |-> "str", s |-> s]
PyInt(n) == [t |-> "int", n |-> n]
\* A float: integer part and fraction digits without trailing zeros.
PyFloat(i, f) == [t |-> "float", i |-> i, f |-> f]
Dict(items) == [t |-> "dict", items |-> items]
Function(name) == [t |-> "function", name |-> name]

\* Python truthiness, as used by `or`, `not` and `if`.
Truthy(v) ==
    CASE v.t = "None" -> FALSE
      [] v.t = "str" -> v.s # <<>>
      [] v.t = "int" -> v.n # 0
      [] v.t = "float" -> ~(v.i = 0 /\ v.f = <<>>)
      [] v.t = "dict" -> IF "items" \in DOMAIN v THEN v.items # {} ELSE TRUE
      [] OTHER -> TRUE

Range(s) == {s[i] : i \in 1..Len(s)}

Ok(v) == [exc |-> "ok", v |-> v]
Raise(e) == [exc |-> e]

---------------------------------------------------------------------------
\* int() and float() of a str

Digits == {"0", "1", "2", "3", "4", "5", "6", "7", "8", "9"}

DigitVal(c) ==
    CASE c = "0" -> 0 [] c = "1" -> 1 [] c = "2" -> 2 [] c = "3" -> 3
      [] c = "4" -> 4 [] c = "5" -> 5 [] c = "6" -> 6 [] c = "7" -> 7
      [] c = "8" -> 8 [] c = "9" -> 9

AllDigits(s) == \A i \in 1..Len(s) : s[i] \in Digits

RECURSIVE IntOf(_)
IntOf(s) == IF s = <<>> THEN 0
            ELSE 10 * IntOf(SubSeq(s, 1, Len(s) - 1)) + DigitVal(s[Len(s)])

RECURSIVE StripZeros(_)
StripZeros(s) == IF s # <<>> /\ s[Len(s)] = "0"
                 THEN StripZeros(SubSeq(s, 1, Len(s) - 1))
                 ELSE s

\* int(x) for a str x: decimal digits only.
int(x) ==
    IF x.s # <<>> /\ AllDigits(x.s) THEN Ok(PyInt(IntOf(x.s)))
    ELSE Raise("ValueError:int")

\* float(x) for a str x: digits, with at most one point and a digit on one side.
float(x) ==
    LET s == x.s
        dots == {i \in 1..Len(s) : s[i] = "."}
    IN IF dots = {}
       THEN IF s # <<>> /\ AllDigits(s) THEN Ok(PyFloat(IntOf(s), <<>>))
            ELSE Raise("ValueError:float")
       ELSE IF Cardinality(dots) = 1
            THEN LET k == CHOOSE i \in dots : TRUE
                     ip == SubSeq(s, 1, k - 1)
                     fp == SubSeq(s, k + 1, Len(s))
                 IN IF AllDigits(ip) /\ AllDigits(fp) /\ Len(ip) + Len(fp) > 0
                    THEN Ok(PyFloat(IntOf(ip), StripZeros(fp)))
                    ELSE Raise("ValueError:float")
            ELSE Raise("ValueError:float")

---------------------------------------------------------------------------
\* os.environ

EnvVars == {"AZURE_OPENAI_ENDPOINT", "AZURE_OPENAI_API_KEY", "AZURE_OPENAI_AD_TOKEN",
            "OPENAI_TIMEOUT", "OPENAI_MAX_RETRIES"}

\* os.environ.get(name): None when the variable is unset.
environ_get(e, name) == e[name]

\* os.environ.get(name, default)
environ_get_default(e, name, default) == IF e[name] = None THEN default ELSE e[name]

---------------------------------------------------------------------------
\* haystack.utils.Secret: a token (literal) or an environment-variable reference

TokenSecret(tok) == [t |-> "TokenSecret", token |-> tok]
EnvVarSecret(names, strict) == [t |-> "EnvVarSecret", env_vars |-> names, strict |-> strict]

RECURSIVE FirstSet(_, _)
FirstSet(e, names) ==
    IF names = <<>> THEN None
    ELSE IF e[Head(names)] # None THEN e[Head(names)]
    ELSE FirstSet(e, Tail(names))

\* Secret.resolve_value(): the literal, or the first variable that is set; a
\* strict reference none of whose variables is set fails.
resolve_value(sec, e) ==
    IF sec.t = "TokenSecret" THEN Ok(Str(sec.token))
    ELSE LET v == FirstSet(e, sec.env_vars)
         IN IF v = None /\ sec.strict THEN Raise("ValueError:secret_unset")
            ELSE Ok(v)

\* Secret.to_dict(): a token secret refuses to be serialized.
Secret_to_dict(sec) ==
    IF sec.t = "TokenSecret" THEN Raise("ValueError:token_secret")
    ELSE Ok([t |-> "dict", type |-> "env_var", env_vars |-> sec.env_vars,
             strict |-> sec.strict])

\* Secret.from_dict(d)
Secret_from_dict(d) ==
    IF d.t # "dict" \/ "type" \notin DOMAIN d THEN Raise("TypeError:secret")
    ELSE IF d.type = "env_var" THEN Ok(EnvVarSecret(d.env_vars, d.strict))
    ELSE Raise("ValueError:token_secret")

---------------------------------------------------------------------------
\* haystack.utils serialize_callable / deserialize_callable

PrintChunk == Function(<<"handlers.print_chunk">>)
TokenProvider == Function(<<"handlers.token_provider">>)
Lambda == Function(<<"handlers.<lambda>">>)

\* The callables an import by name can locate.
Importable == {PrintChunk, TokenProvider}

serialize_callable(f) == Str(f.name)

deserialize_callable(h) ==
    IF h.t # "str" THEN Raise("AttributeError:split")
    ELSE IF Function(h.s) \in Importable THEN Ok(Function(h.s))
    ELSE Raise("DeserializationError:callable")

---------------------------------------------------------------------------
\* AzureOpenAIGenerator.__init__

Keys == {"azure_endpoint", "api_version", "azure_deployment", "api_key",
         "azure_ad_token", "organization", "streaming_callback", "system_prompt",
         "timeout", "max_retries", "generation_kwargs", "default_headers",
         "azure_ad_token_provider"}

\* The defaults of the signature.
Defaults ==
    [azure_endpoint |-> None,
     api_version |-> Str(<<"2023-05-15">>),
     azure_deployment |-> Str(<<"gpt-4o-mini">>),
     api_key |-> EnvVarSecret(<<"AZURE_OPENAI_API_KEY">>, FALSE),
     azure_ad_token |-> EnvVarSecret(<<"AZURE_OPENAI_AD_TOKEN">>, FALSE),
     organization |-> None,
     streaming_callback |-> None,
     system_prompt |-> None,
     timeout |-> None,
     max_retries |-> None,
     generation_kwargs |-> None,
     default_headers |-> None,
     azure_ad_token_provider |-> None]

\* AzureOpenAI(**kw): the client the constructor builds; id is the identity of the
\* new object.
AzureOpenAI(id, kw) == [t |-> "AzureOpenAI", id |-> id, kw |-> kw]

\* Mutant: the fallback is taken only for None, so an empty argument is kept.
ResolveEndpoint_NoneOnly(p, e) ==
    IF p.azure_endpoint # None THEN p.azure_endpoint
    ELSE environ_get(e, "AZURE_OPENAI_ENDPOINT")

\* azure_endpoint or os.environ.get("AZURE_OPENAI_ENDPOINT")
ResolveEndpoint(p, e) ==
    IF Truthy(p.azure_endpoint) THEN p.azure_endpoint
    ELSE environ_get(e, "AZURE_OPENAI_ENDPOINT")

\* Mutant: a token provider counts as a credential.
MissingCredential_Provider(p) ==
    p.api_key = None /\ p.azure_ad_token = None /\ p.azure_ad_token_provider = None

\* Mutant: the API key is required.
MissingCredential_KeyOnly(p) == p.api_key = None

\* api_key is None and azure_ad_token is None
MissingCredential(p) == p.api_key = None /\ p.azure_ad_token = None

\* Mutant: `timeout or float(...)`, so an explicit 0 counts as not supplied.
ResolveTimeout_Falsy(p, e) ==
    IF Truthy(p.timeout) THEN Ok(p.timeout)
    ELSE float(environ_get_default(e, "OPENAI_TIMEOUT", Str(<<"3", "0", ".", "0">>)))

\* timeout if timeout is not None else float(os.environ.get("OPENAI_TIMEOUT", "30.0"))
ResolveTimeout(p, e) ==
    IF p.timeout # None THEN Ok(p.timeout)
    ELSE float(environ_get_default(e, "OPENAI_TIMEOUT", Str(<<"3", "0", ".", "0">>)))

\* max_retries if max_retries is not None else int(os.environ.get("OPENAI_MAX_RETRIES", "5"))
ResolveMaxRetries(p, e) ==
    IF p.max_retries # None THEN Ok(p.max_retries)
    ELSE int(environ_get_default(e, "OPENAI_MAX_RETRIES", Str(<<"5">>)))

\* Mutant: the client is built without resolving the references.
ResolveForClient_Lazy(sec, e) == Ok(None)

\* secret.resolve_value() if secret is not None else None, as passed to the client
ResolveForClient(sec, e) == IF sec # None THEN resolve_value(sec, e) ELSE Ok(None)

\* __init__(p) in environment e; id names the client object it would build.
init(p, e, id) ==
    LET azure_endpoint == ResolveEndpoint(p, e)
        timeout == ResolveTimeout(p, e)
        max_retries == ResolveMaxRetries(p, e)
        default_headers == IF Truthy(p.default_headers) THEN p.default_headers ELSE Dict({})
        key == ResolveForClient(p.api_key, e)
        token == ResolveForClient(p.azure_ad_token, e)
    IN IF ~Truthy(azure_endpoint) THEN Raise("ValueError:endpoint")
       ELSE IF MissingCredential(p) THEN Raise("ValueError:credential")
       ELSE IF timeout.exc # "ok" THEN Raise(timeout.exc)
       ELSE IF max_retries.exc # "ok" THEN Raise(max_retries.exc)
       ELSE IF key.exc # "ok" THEN Raise(key.exc)
       ELSE IF token.exc # "ok" THEN Raise(token.exc)
       ELSE Ok([t |-> "AzureOpenAIGenerator",
                api_key |-> p.api_key,
                azure_ad_token |-> p.azure_ad_token,
                generation_kwargs |-> IF Truthy(p.generation_kwargs)
                                      THEN p.generation_kwargs ELSE Dict({}),
                system_prompt |-> p.system_prompt,
                streaming_callback |-> p.streaming_callback,
                api_version |-> p.api_version,
                azure_endpoint |-> azure_endpoint,
                azure_deployment |-> p.azure_deployment,
                organization |-> p.organization,
                model |-> IF Truthy(p.azure_deployment) THEN p.azure_deployment
                          ELSE Str(<<"gpt-4o-mini">>),
                timeout |-> timeout.v,
                max_retries |-> max_retries.v,
                default_headers |-> default_headers,
                azure_ad_token_provider |-> p.azure_ad_token_provider,
                client |-> AzureOpenAI(id,
                    [api_version |-> p.api_version,
                     azure_endpoint |-> azure_endpoint,
                     azure_deployment |-> p.azure_deployment,
                     azure_ad_token_provider |-> p.azure_ad_token_provider,
                     api_key |-> key.v,
                     azure_ad_token |-> token.v,
                     organization |-> p.organization,
                     timeout |-> timeout.v,
                     max_retries |-> max_retries.v,
                     default_headers |-> default_headers])])

---------------------------------------------------------------------------
\* AzureOpenAIGenerator.to_dict

QualName == Str(<<"haystack.components.generators.azure.AzureOpenAIGenerator">>)

\* default_to_dict(obj, **init_parameters)
default_to_dict(init_parameters) == [type |-> QualName, init_parameters |-> init_parameters]

\* Mutant: the value the reference resolves to is written out.
SerializedSecret_Resolved(sec) ==
    IF sec # None /\ resolve_value(sec, env).exc = "ok"
    THEN resolve_value(sec, env) ELSE Ok(None)

\* secret.to_dict() if secret is not None else None
SerializedSecret(sec) == IF sec # None THEN Secret_to_dict(sec) ELSE Ok(None)

\* Mutant: the effective model name is written as the deployment.
SerializedDeployment_Model(self) == self.model

\* azure_deployment=self.azure_deployment
SerializedDeployment(self) == self.azure_deployment

to_dict(self) ==
    LET callback_name == IF Truthy(self.streaming_callback)
                         THEN serialize_callable(self.streaming_callback) ELSE None
        azure_ad_token_provider_name ==
            IF Truthy(self.azure_ad_token_provider)
            THEN serialize_callable(self.azure_ad_token_provider) ELSE None
        api_key == SerializedSecret(self.api_key)
        azure_ad_token == SerializedSecret(self.azure_ad_token)
    IN IF api_key.exc # "ok" THEN Raise(api_key.exc)
       ELSE IF azure_ad_token.exc # "ok" THEN Raise(azure_ad_token.exc)
       ELSE Ok(default_to_dict(
                [azure_endpoint |-> self.azure_endpoint,
                 azure_deployment |-> SerializedDeployment(self),
                 organization |-> self.organization,
                 api_version |-> self.api_version,
                 streaming_callback |-> callback_name,
                 generation_kwargs |-> self.generation_kwargs,
                 system_prompt |-> self.system_prompt,
                 api_key |-> api_key.v,
                 azure_ad_token |-> azure_ad_token.v,
                 timeout |-> self.timeout,
                 max_retries |-> self.max_retries,
                 default_headers |-> self.default_headers,
                 azure_ad_token_provider |-> azure_ad_token_provider_name]))

---------------------------------------------------------------------------
\* AzureOpenAIGenerator.from_dict

\* dict.get(k): None when the key is absent.
dict_get(d, k) == IF k \in DOMAIN d THEN d[k] ELSE None

\* d[k] = v
dict_set(d, k, v) == [x \in DOMAIN d \cup {k} |-> IF x = k THEN v ELSE d[x]]

\* Mutant: the provider is stored back under the callback's key.
ProviderKey_Callback == "streaming_callback"

\* The key under which the resolved token provider is stored back.
ProviderKey == "azure_ad_token_provider"

\* deserialize_secrets_inplace(data, keys): every listed entry that is present and
\* not None is replaced, in the mapping itself, by the secret it describes.
RECURSIVE deserialize_secrets_inplace(_, _)
deserialize_secrets_inplace(data, keys) ==
    IF keys = <<>> THEN [exc |-> "ok", data |-> data]
    ELSE LET k == Head(keys)
         IN IF k \in DOMAIN data /\ data[k] # None
            THEN LET sec == Secret_from_dict(data[k])
                 IN IF sec.exc # "ok" THEN [exc |-> sec.exc, data |-> data]
                    ELSE deserialize_secrets_inplace([data EXCEPT ![k] = sec.v], Tail(keys))
            ELSE deserialize_secrets_inplace(data, Tail(keys))

\* cls(**init_params): a key the mapping lacks takes the signature's default.
Kwargs(init_params) ==
    [k \in Keys |-> IF k \in DOMAIN init_params THEN init_params[k] ELSE Defaults[k]]

\* default_from_dict(cls, data)
default_from_dict(data, e, id) ==
    LET init_params == IF "init_parameters" \in DOMAIN data THEN data.init_parameters ELSE <<>>
    IN IF "type" \notin DOMAIN data THEN Raise("DeserializationError:type")
       ELSE IF data.type # QualName THEN Raise("DeserializationError:type")
       ELSE init(Kwargs(init_params), e, id)

\* from_dict(data) in environment e: the outcome, the component built (when ok) and
\* the document as the call leaves it.
from_dict(data, e, id) ==
    IF "init_parameters" \notin DOMAIN data
    THEN [exc |-> "KeyError:init_parameters", data |-> data]
    ELSE
    LET s1 == deserialize_secrets_inplace(data.init_parameters, <<"api_key", "azure_ad_token">>)
        data1 == [data EXCEPT !.init_parameters = s1.data]
        init_params == data1.init_parameters
        serialized_callback_handler == dict_get(init_params, "streaming_callback")
        cb == IF Truthy(serialized_callback_handler)
              THEN deserialize_callable(serialized_callback_handler) ELSE Ok(None)
        data2 == IF Truthy(serialized_callback_handler) /\ cb.exc = "ok"
                 THEN [data1 EXCEPT !.init_parameters =
                                        dict_set(@, "streaming_callback", cb.v)]
                 ELSE data1
        serialized_azure_ad_token_provider ==
            dict_get(data2.init_parameters, "azure_ad_token_provider")
        tp == IF Truthy(serialized_azure_ad_token_provider)
              THEN deserialize_callable(serialized_azure_ad_token_provider) ELSE Ok(None)
        data3 == IF Truthy(serialized_azure_ad_token_provider) /\ tp.exc = "ok"
                 THEN [data2 EXCEPT !.init_parameters = dict_set(@, ProviderKey, tp.v)]
                 ELSE data2
        r == default_from_dict(data3, e, id)
    IN IF s1.exc # "ok" THEN [exc |-> s1.exc, data |-> data1]
       ELSE IF cb.exc # "ok" THEN [exc |-> cb.exc, data |-> data1]
       ELSE IF tp.exc # "ok" THEN [exc |-> tp.exc, data |-> data2]
       ELSE IF r.exc # "ok" THEN [exc |-> r.exc, data |-> data3]
       ELSE [exc |-> "ok", data |-> data3, v |-> r.v]

---------------------------------------------------------------------------
\* State: the environment, the components held (by name), the documents held (by
\* name), the last call and its outcome, and the next client identity.

Slots == {"a", "b"}
DocIds == {"d1", "d2"}

\* What a slot holds: the component, and the arguments and environment of its
\* construction.
Held(obj, p, e) == [obj |-> obj, p |-> p, e |-> e]

\* What a document name holds: the document, and (for one to_dict returned) the
\* component it came from and the value as returned.
Doc(data, src, ret) == [data |-> data, src |-> src, ret |-> ret]

NoEnv == [v \in EnvVars |-> None]

\* os.environ[name] = x, or del os.environ[name] when x is None
SetEnv(name, x) ==
    /\ env[name] # x
    /\ env' = [env EXCEPT ![name] = x]
    /\ res' = [op |-> "setenv"]
    /\ UNCHANGED <<comps, docs, nextId>>

\* comps[s] = AzureOpenAIGenerator(**p)
Construct(s, p) ==
    /\ comps[s] = None
    /\ nextId < MaxClients
    /\ LET r == init(p, env, nextId)
       IN /\ res' = [op |-> "init", slot |-> s, p |-> p, exc |-> r.exc]
          /\ IF r.exc = "ok"
             THEN /\ comps' = [comps EXCEPT ![s] = Held(r.v, p, env)]
                  /\ nextId' = nextId + 1
             ELSE UNCHANGED <<comps, nextId>>
    /\ UNCHANGED <<env, docs>>

\* Mutant: to_dict keeps the serialized callback name on the component.
ToDict_Caching(s, k) ==
    /\ comps[s] # None
    /\ docs[k] = None
    /\ LET r == to_dict(comps[s].obj)
       IN /\ res' = [op |-> "to_dict", slot |-> s, doc |-> k, exc |-> r.exc]
          /\ IF r.exc = "ok"
             THEN /\ docs' = [docs EXCEPT ![k] = Doc(r.v, s, r.v)]
                  /\ comps' = [comps EXCEPT ![s].obj.streaming_callback =
                                    r.v.init_parameters.streaming_callback]
             ELSE UNCHANGED <<docs, comps>>
    /\ UNCHANGED <<env, nextId>>

\* docs[k] = comps[s].to_dict()
ToDict(s, k) ==
    /\ comps[s] # None
    /\ docs[k] = None
    /\ LET r == to_dict(comps[s].obj)
       IN /\ res' = [op |-> "to_dict", slot |-> s, doc |-> k, exc |-> r.exc]
          /\ IF r.exc = "ok"
             THEN docs' = [docs EXCEPT ![k] = Doc(r.v, s, r.v)]
             ELSE UNCHANGED docs
    /\ UNCHANGED <<env, comps, nextId>>

\* docs[k] = d, a document read from a file
LoadDoc(k, d) ==
    /\ docs[k] = None
    /\ docs' = [docs EXCEPT ![k] = Doc(d, "file", d)]
    /\ res' = [op |-> "load", doc |-> k]
    /\ UNCHANGED <<env, comps, nextId>>

\* AzureOpenAIGenerator.from_dict(docs[k]); the component it returns is res.obj
FromDict(k) ==
    /\ docs[k] # None
    /\ nextId < MaxClients
    /\ LET r == from_dict(docs[k].data, env, nextId)
       IN /\ res' = [op |-> "from_dict", doc |-> k, before |-> docs[k].data, exc |-> r.exc,
                     obj |-> IF r.exc = "ok" THEN r.v ELSE None]
          /\ docs' = [docs EXCEPT ![k].data = r.data]
          /\ nextId' = IF r.exc = "ok" THEN nextId + 1 ELSE nextId
    /\ UNCHANGED <<env, comps>>

---------------------------------------------------------------------------
\* Inputs

ArgEndpoint == Str(<<"https://arg.openai.azure.com/">>)
EnvEndpoint == Str(<<"https://env.openai.azure.com/">>)

StrictKey == EnvVarSecret(<<"AZURE_OPENAI_API_KEY">>, TRUE)
StrictToken == EnvVarSecret(<<"AZURE_OPENAI_AD_TOKEN">>, TRUE)
LiteralKey == TokenSecret(<<"sk-literal">>)

With(p, k, v) == [p EXCEPT ![k] = v]

\* Endpoint and credentials vary; the rest is as defaulted.
CredParams ==
    {[Defaults EXCEPT !.azure_endpoint = ep, !.api_key = ak, !.azure_ad_token = at,
                      !.azure_ad_token_provider = tp] :
        ep \in {None, Str(<<>>), ArgEndpoint},
        ak \in {None, LiteralKey, Defaults.api_key, StrictKey},
        at \in {None, Defaults.azure_ad_token, StrictToken},
        tp \in {None}}

\* The fields copied as given vary.
PlainParams ==
    {[Defaults EXCEPT !.azure_endpoint = ArgEndpoint, !.api_version = av,
                      !.azure_deployment = dep, !.organization = org, !.system_prompt = sp] :
        av \in {Defaults.api_version, None},
        dep \in {Defaults.azure_deployment, None, Str(<<>>)},
        org \in {None, Str(<<"org-1">>)},
        sp \in {None, Str(<<"Be brief.">>)}}

\* The request options vary.
OptionParams ==
    {[Defaults EXCEPT !.azure_endpoint = ArgEndpoint, !.timeout = to, !.max_retries = mr,
                      !.generation_kwargs = gk, !.default_headers = dh] :
        to \in {None, PyFloat(0, <<>>)},
        mr \in {None, PyInt(0)},
        gk \in {None, Dict({}), Dict({<<"max_tokens", PyInt(10)>>})},
        dh \in {None, Dict({<<"x-tenant", Str(<<"t1">>)>>})}}

\* The callables vary.
CallableParams ==
    {[Defaults EXCEPT !.azure_endpoint = ArgEndpoint, !.streaming_callback = cb,
                      !.azure_ad_token_provider = tp, !.api_key = ak] :
        cb \in {None, PrintChunk, Lambda},
        tp \in {None, TokenProvider, Lambda},
        ak \in {Defaults.api_key, None}}

Params == CredParams \cup PlainParams \cup OptionParams \cup CallableParams

\* Endpoint, credentials and the timeout argument vary.
ConstructParams ==
    {[p EXCEPT !.timeout = to, !.azure_ad_token_provider = tp] :
        p \in CredParams, to \in {None, PyFloat(0, <<>>)}, tp \in {None, TokenProvider}}

\* The numeric arguments vary.
NumParams ==
    {[Defaults EXCEPT !.azure_endpoint = ArgEndpoint, !.timeout = to, !.max_retries = mr] :
        to \in {None, PyFloat(0, <<>>), PyFloat(7, <<"5">>)},
        mr \in {None, PyInt(0), PyInt(2)}}

\* Only the credentials vary.
SecretParams ==
    {[Defaults EXCEPT !.azure_endpoint = ArgEndpoint, !.api_key = ak, !.azure_ad_token = at] :
        ak \in {None, LiteralKey, Defaults.api_key, StrictKey},
        at \in {None, Defaults.azure_ad_token}}

Environment(ep, key, tok, to, mr) ==
    [v \in EnvVars |->
        CASE v = "AZURE_OPENAI_ENDPOINT" -> ep
          [] v = "AZURE_OPENAI_API_KEY" -> key
          [] v = "AZURE_OPENAI_AD_TOKEN" -> tok
          [] v = "OPENAI_TIMEOUT" -> to
          [] v = "OPENAI_MAX_RETRIES" -> mr]

KeyValues == {None, Str(<<"key-1">>), Str(<<"key-2">>)}
TokenValues == {None, Str(<<"tok-1">>)}

NumChars == {"0", "3", ".", "x"}
\* Every str of at most n characters over NumChars.
Strs(n) == UNION {{Str(s) : s \in [1..m -> NumChars]} : m \in 0..n}

ConstructEnvs ==
    {Environment(ep, key, tok, to, mr) :
        ep \in {None, Str(<<>>), EnvEndpoint},
        key \in {None, Str(<<"key-1">>)},
        tok \in TokenValues,
        to \in {None, Str(<<"4", "5">>), Str(<<"4", "x">>)},
        mr \in {None, Str(<<"3", ".", "0">>)}}

NumEnvs ==
    {Environment(None, None, None, to, mr) :
        to \in {None} \cup Strs(MaxStrLen), mr \in {None, Str(<<"3">>), Str(<<"x">>)}}
    \cup
    {Environment(None, None, None, to, mr) :
        to \in {None, Str(<<"4", "5">>), Str(<<"x">>)}, mr \in {None} \cup Strs(MaxStrLen)}

MainEnvs ==
    {Environment(ep, key, tok, to, None) :
        ep \in {None, EnvEndpoint},
        key \in {None, Str(<<"key-1">>)},
        tok \in TokenValues,
        to \in {None, Str(<<"4", "5">>)}}

\* Documents read from a file: written by hand, or by to_dict and edited.
EnvVarDict(names, strict) ==
    [t |-> "dict", type |-> "env_var", env_vars |-> names, strict |-> strict]

FileDocs ==
    {[type |-> QualName],
     [type |-> QualName, init_parameters |-> <<>>],
     [type |-> Str(<<"haystack.components.generators.OpenAIGenerator">>),
      init_parameters |-> [azure_endpoint |-> ArgEndpoint]],
     [type |-> QualName, init_parameters |-> [azure_endpoint |-> ArgEndpoint]],
     [type |-> QualName,
      init_parameters |-> [azure_endpoint |-> ArgEndpoint, api_key |-> None,
                           azure_ad_token |-> None]],
     [type |-> QualName,
      init_parameters |-> [api_key |-> EnvVarDict(<<"AZURE_OPENAI_API_KEY">>, TRUE),
                           azure_ad_token |-> None]],
     [type |-> QualName,
      init_parameters |-> [azure_endpoint |-> ArgEndpoint,
                           api_key |-> EnvVarDict(<<"AZURE_OPENAI_API_KEY">>, TRUE),
                           azure_ad_token |-> EnvVarDict(<<"AZURE_OPENAI_AD_TOKEN">>, FALSE)]],
     [type |-> QualName,
      init_parameters |-> [azure_endpoint |-> ArgEndpoint,
                           api_key |-> [t |-> "dict", type |-> "token"]]],
     [type |-> QualName,
      init_parameters |-> [azure_endpoint |-> ArgEndpoint,
                           streaming_callback |-> Str(<<"handlers.print_chunk">>),
                           timeout |-> PyFloat(0, <<>>)]],
     [type |-> QualName,
      init_parameters |-> [azure_endpoint |-> ArgEndpoint,
                           azure_ad_token |-> EnvVarDict(<<"AZURE_OPENAI_AD_TOKEN">>, TRUE),
                           azure_ad_token_provider |-> Str(<<"handlers.token_provider">>)]],
     [type |-> QualName,
      init_parameters |-> [azure_endpoint |-> ArgEndpoint,
                           streaming_callback |-> Str(<<"handlers.missing">>)]]}

---------------------------------------------------------------------------
\* Specifications

Start(envs) ==
    /\ env \in envs
    /\ comps = [s \in Slots |-> None]
    /\ docs = [k \in DocIds |-> None]
    /\ res = [op |-> "none"]
    /\ nextId = 0

\* A component is constructed, serialized and deserialized.  The environment stays
\* as the process found it.
Init == Start(MainEnvs)

Next ==
    \/ \E p \in Params : Construct("a", p)
    \/ \E k \in DocIds : ToDict("a", k)
    \/ \E k \in DocIds : FromDict(k)

Spec == Init /\ [][Next]_vars

\* Documents read from files are deserialized, again and again.
InitLoad == Start(MainEnvs)

NextLoad ==
    \/ \E k \in DocIds, d \in FileDocs : LoadDoc(k, d)
    \/ \E k \in DocIds : FromDict(k)

SpecLoad == InitLoad /\ [][NextLoad]_vars

\* Construction alone, over endpoint, credential and environment combinations.
InitConstruct == Start(ConstructEnvs)

NextConstruct == \E p \in ConstructParams : Construct("a", p)

SpecConstruct == InitConstruct /\ [][NextConstruct]_vars

\* Construction alone, over the contents of OPENAI_TIMEOUT and OPENAI_MAX_RETRIES.
InitNum == Start(NumEnvs)

NextNum == \E p \in NumParams : Construct("a", p)

SpecNum == InitNum /\ [][NextNum]_vars

\* Two components built from credential arguments while the secret variables change.
InitSecret == Start({NoEnv})

NextSecret ==
    \/ \E x \in KeyValues : SetEnv("AZURE_OPENAI_API_KEY", x)
    \/ \E x \in TokenValues : SetEnv("AZURE_OPENAI_AD_TOKEN", x)
    \/ \E s \in Slots, p \in SecretParams : Construct(s, p)
    \/ ToDict("a", "d1")
    \/ ToDict("b", "d2")

SpecSecret == InitSecret /\ [][NextSecret]_vars

\* One component's life while the environment changes around it.
LifeParams ==
    {With(With(p, "streaming_callback", cb), "generation_kwargs", gk) :
        p \in SecretParams, cb \in {None, PrintChunk},
        gk \in {None, Dict({<<"max_tokens", PyInt(10)>>})}}

InitEnv == Start({NoEnv})

NextEnv ==
    \/ \E x \in {None, Str(<<"key-1">>)} : SetEnv("AZURE_OPENAI_API_KEY", x)
    \/ \E x \in {None, EnvEndpoint} : SetEnv("AZURE_OPENAI_ENDPOINT", x)
    \/ \E x \in {None, Str(<<"x">>)} : SetEnv("OPENAI_TIMEOUT", x)
    \/ \E p \in LifeParams : Construct("a", p)
    \/ \E k \in DocIds : ToDict("a", k)
    \/ \E k \in DocIds : FromDict(k)

SpecEnv == InitEnv /\ [][NextEnv]_vars

---------------------------------------------------------------------------
\* Claims about construction

EndpointOf(e) == e["AZURE_OPENAI_ENDPOINT"]

\* An endpoint is available: a non-empty argument or a non-empty variable.
EndpointResolvable(p, e) == Truthy(p.azure_endpoint) \/ Truthy(EndpointOf(e))

\* The last call was a construction; env is the environment it ran in.
Constructed == res.op = "init"

\* C3: with an endpoint available and both api_key and azure_ad_token None,
\* construction fails with the credential ValueError and leaves no component,
\* whatever the other arguments and the environment are.
C3_NoCredentialFails ==
    (Constructed /\ EndpointResolvable(res.p, env)
        /\ res.p.api_key = None /\ res.p.azure_ad_token = None)
    => (res.exc = "ValueError:credential" /\ comps[res.slot] = None)

C3_Witness ==
    /\ Constructed /\ res.exc = "ValueError:credential"
    /\ res.p.azure_endpoint = None /\ EndpointOf(env) = EnvEndpoint
    /\ res.p.azure_ad_token_provider = TokenProvider
    /\ res.p.timeout # None

\* C4: the effective endpoint is the argument when non-empty, else the
\* AZURE_OPENAI_ENDPOINT variable; construction fails with the endpoint ValueError
\* exactly when the argument is None or empty and the variable is unset or empty,
\* whichever credentials were given.
C4_EndpointResolution ==
    Constructed =>
        /\ res.exc = "ValueError:endpoint"
            <=> (res.p.azure_endpoint \in {None, Str(<<>>)}
                 /\ EndpointOf(env) \in {None, Str(<<>>)})
        /\ res.exc = "ok" =>
            comps[res.slot].obj.azure_endpoint =
                (IF res.p.azure_endpoint \notin {None, Str(<<>>)}
                 THEN res.p.azure_endpoint ELSE EndpointOf(env))

C4_Witness ==
    /\ Constructed /\ res.exc = "ok"
    /\ res.p.azure_endpoint = Str(<<>>)
    /\ comps[res.slot].obj.azure_endpoint = EnvEndpoint

\* The secret is absent, a literal, not strict, or names a variable that is set.
Resolves(sec, e) ==
    \/ sec = None
    \/ sec.t = "TokenSecret"
    \/ ~sec.strict
    \/ \E i \in 1..Len(sec.env_vars) : e[sec.env_vars[i]] # None

\* The numeric argument is supplied, or its variable is unset or parses.
TimeoutUsable(p, e) ==
    p.timeout # None \/ e["OPENAI_TIMEOUT"] = None \/ float(e["OPENAI_TIMEOUT"]).exc = "ok"
RetriesUsable(p, e) ==
    p.max_retries # None \/ e["OPENAI_MAX_RETRIES"] = None
        \/ int(e["OPENAI_MAX_RETRIES"]).exc = "ok"

\* C5 as stated: construction succeeds whenever an endpoint is available and at
\* least one credential reference is present.
C5_AlwaysSucceeds ==
    (Constructed /\ EndpointResolvable(res.p, env)
        /\ (res.p.api_key # None \/ res.p.azure_ad_token # None))
    => res.exc = "ok"

\* C5 as amended: with an endpoint available and at least one credential reference
\* present, construction never fails with the endpoint or credential error, and it
\* succeeds exactly when the numeric settings are usable and every present strict
\* reference resolves; the component keeps both references and hands both resolved
\* values to the client.
C5_SucceedsWhenResolvable ==
    (Constructed /\ EndpointResolvable(res.p, env)
        /\ (res.p.api_key # None \/ res.p.azure_ad_token # None))
    => /\ res.exc \notin {"ValueError:endpoint", "ValueError:credential"}
       /\ res.exc = "ok"
            <=> /\ TimeoutUsable(res.p, env) /\ RetriesUsable(res.p, env)
                /\ Resolves(res.p.api_key, env) /\ Resolves(res.p.azure_ad_token, env)
       /\ res.exc = "ok" =>
            LET c == comps[res.slot].obj
            IN /\ c.api_key = res.p.api_key
               /\ c.azure_ad_token = res.p.azure_ad_token
               /\ (res.p.api_key # None /\ res.p.api_key.t = "EnvVarSecret")
                    => c.client.kw.api_key = FirstSet(env, res.p.api_key.env_vars)
               /\ (res.p.azure_ad_token # None)
                    => c.client.kw.azure_ad_token = FirstSet(env, res.p.azure_ad_token.env_vars)

C5_Witness ==
    /\ Constructed /\ res.exc = "ok"
    /\ res.p.api_key = None /\ res.p.azure_ad_token = StrictToken
    /\ comps[res.slot].obj.client.kw.azure_ad_token = Str(<<"tok-1">>)

\* C6: after a successful construction timeout is the argument when one was given
\* (0 included), else the parsed OPENAI_TIMEOUT when set, else 30; max_retries is
\* the argument when given (0 included), else the parsed OPENAI_MAX_RETRIES when
\* set, else 5.  A parse error arises only for a variable whose argument was not
\* given, and then no component and no client exist.
C6_NumericDefaults ==
    Constructed =>
        LET to == env["OPENAI_TIMEOUT"]
            mr == env["OPENAI_MAX_RETRIES"]
        IN /\ res.exc = "ok" =>
                LET c == comps[res.slot].obj
                IN /\ c.timeout = (IF res.p.timeout # None THEN res.p.timeout
                                   ELSE IF to # None THEN float(to).v
                                   ELSE PyFloat(30, <<>>))
                   /\ c.max_retries = (IF res.p.max_retries # None THEN res.p.max_retries
                                       ELSE IF mr # None THEN int(mr).v
                                       ELSE PyInt(5))
                   /\ c.client.kw.timeout = c.timeout
                   /\ c.client.kw.max_retries = c.max_retries
                   /\ (res.p.timeout = None /\ to = Str(<<"3", ".", "0">>))
                        => c.timeout = PyFloat(3, <<>>)
                   /\ (res.p.max_retries = None /\ mr = Str(<<"0", "3">>))
                        => c.max_retries = PyInt(3)
           /\ res.exc = "ValueError:float" =>
                (res.p.timeout = None /\ to # None /\ comps[res.slot] = None /\ nextId = 0)
           /\ res.exc = "ValueError:int" =>
                (res.p.max_retries = None /\ mr # None /\ comps[res.slot] = None /\ nextId = 0)
           /\ (res.p.timeout = None /\ to # None /\ ~AllDigits(to.s) /\ "." \notin Range(to.s))
                => res.exc = "ValueError:float"
           /\ (res.p.max_retries = None /\ mr # None /\ ~AllDigits(mr.s))
                => res.exc \in {"ValueError:float", "ValueError:int"}

C6_Witness ==
    /\ Constructed /\ res.exc = "ok"
    /\ res.p.timeout = PyFloat(0, <<>>) /\ env["OPENAI_TIMEOUT"] = Str(<<"x">>)
    /\ comps[res.slot].obj.timeout = PyFloat(0, <<>>)
    /\ res.p.max_retries = None /\ env["OPENAI_MAX_RETRIES"] = Str(<<"3">>)
    /\ comps[res.slot].obj.max_retries = PyInt(3)

---------------------------------------------------------------------------
\* Claims about serialization and deserialization

SecretKeys == {"api_key", "azure_ad_token"}
CallableKeys == {"streaming_callback", "azure_ad_token_provider"}

\* Field for field, the configuration of two components is the same.
SameConfig(c1, c2) == \A f \in Keys : c1[f] = c2[f]

\* The last call was from_dict on a document exactly as to_dict("a") returned it,
\* in the environment the component was constructed in.
RoundTripped ==
    /\ res.op = "from_dict"
    /\ docs[res.doc].src = "a"
    /\ res.before = docs[res.doc].ret
    /\ comps["a"].e = env

\* C1 as stated: to_dict of every constructed component succeeds, and from_dict of
\* the document in the same environment succeeds with every configuration field
\* equal.
C1_RoundTrip ==
    /\ res.op = "to_dict" => res.exc = "ok"
    /\ RoundTripped => (res.exc = "ok" /\ SameConfig(res.obj, comps["a"].obj))

\* No literal token secret, and every callable can be located by its name.
Serializable(c) ==
    /\ \A f \in SecretKeys : c[f] = None \/ c[f].t = "EnvVarSecret"
    /\ \A f \in CallableKeys : c[f] = None \/ c[f] \in Importable

\* C1 as amended: for a component whose secrets are absent or environment-variable
\* references and whose callables are absent or can be located by name, to_dict
\* succeeds and from_dict of the document in the same environment succeeds with
\* every configuration field equal, the secrets as references.
C1_RoundTripSerializable ==
    /\ (res.op = "to_dict" /\ Serializable(comps[res.slot].obj)) => res.exc = "ok"
    /\ (RoundTripped /\ Serializable(comps["a"].obj))
        => (res.exc = "ok" /\ SameConfig(res.obj, comps["a"].obj))

C1_Witness ==
    /\ RoundTripped /\ res.exc = "ok"
    /\ comps["a"].obj.azure_deployment = None
    /\ comps["a"].p.azure_endpoint = ArgEndpoint
    /\ res.obj.api_key = Defaults.api_key
    /\ res.obj.client.id # comps["a"].obj.client.id

\* C2: a document to_dict returns holds, for api_key and azure_ad_token, only the
\* serialized form of the reference given at construction (or None), never a str;
\* and two components constructed from the same arguments while only the secret
\* variables differ serialize to the same document.
C2_NoResolvedSecret ==
    /\ \A k \in DocIds :
        (docs[k] # None /\ docs[k].src \in Slots) =>
            \A f \in SecretKeys :
                LET given == comps[docs[k].src].p[f]
                    out == docs[k].ret.init_parameters[f]
                IN /\ out.t # "str"
                   /\ out = IF given = None THEN None
                            ELSE EnvVarDict(given.env_vars, given.strict)
    /\ (docs["d1"] # None /\ docs["d2"] # None /\ comps["a"].p = comps["b"].p)
        => docs["d1"].ret = docs["d2"].ret

C2_Witness ==
    /\ docs["d1"] # None /\ docs["d2"] # None
    /\ comps["a"].p = comps["b"].p
    /\ comps["a"].p.api_key = StrictKey
    /\ comps["a"].obj.client.kw.api_key = Str(<<"key-1">>)
    /\ comps["b"].obj.client.kw.api_key = Str(<<"key-2">>)

\* The init_parameters of a document; no parameters when the mapping is absent.
InitParametersOf(data) ==
    IF "init_parameters" \in DOMAIN data THEN data.init_parameters ELSE <<>>

\* The serialized form of an environment-variable reference.
IsReference(v) == v.t = "dict" /\ "type" \in DOMAIN v /\ v.type = "env_var"

ReconstructedEntry(k, v) ==
    IF k \in SecretKeys /\ v # None THEN Secret_from_dict(v)
    ELSE IF k \in CallableKeys /\ Truthy(v) THEN deserialize_callable(v)
    ELSE Ok(v)

\* Every secret and callable entry of the mapping can be reconstructed.
Reconstructable(ip) == \A k \in DOMAIN ip : ReconstructedEntry(k, ip[k]).exc = "ok"

\* The parameters reconstructed from the mapping.
Reconstructed(ip) == [k \in DOMAIN ip |-> ReconstructedEntry(k, ip[k]).v]

\* C7 as stated, for a document of this class whose entries can be reconstructed:
\* from_dict fails with the endpoint (credential) error exactly when construction
\* from the reconstructed parameters would, an absent init_parameters meaning no
\* parameters, and succeeds whenever that construction would.
C7_FromDictValidatesLikeConstruct ==
    (res.op = "from_dict" /\ res.before.type = QualName
        /\ Reconstructable(InitParametersOf(res.before)))
    => LET c == init(Kwargs(Reconstructed(InitParametersOf(res.before))), env, nextId)
       IN /\ res.exc = "ValueError:endpoint" <=> c.exc = "ValueError:endpoint"
          /\ res.exc = "ValueError:credential" <=> c.exc = "ValueError:credential"
          /\ c.exc = "ok" => res.exc = "ok"

\* C8 as stated: from_dict never fails because a secret reference of the document
\* names a variable that is unset.
C8_FromDictNeverResolves ==
    res.op = "from_dict" => res.exc # "ValueError:secret_unset"

\* Every variable the serialized reference names is unset.
AllUnset(ref, e) == \A i \in 1..Len(ref.env_vars) : e[ref.env_vars[i]] = None

\* C8 as amended: the reconstruction step turns each serialized reference into the
\* reference itself, whatever the environment holds, and a component from_dict
\* returns keeps the reference; but the construction from_dict delegates to
\* resolves each reference for the client at once, so the client holds the value
\* the environment has now, from_dict never succeeds on a strict reference whose
\* variables are all unset, and the resolution error arises only for such a
\* reference.
C8_ResolvedByConstructOnly ==
    (res.op = "from_dict" /\ "init_parameters" \in DOMAIN res.before) =>
        LET ip == res.before.init_parameters
            after == docs[res.doc].data.init_parameters
            refs == {k \in SecretKeys \cap DOMAIN ip : IsReference(ip[k])}
        IN /\ res.exc \notin {"TypeError:secret", "ValueError:token_secret"} =>
                \A k \in refs : after[k] = EnvVarSecret(ip[k].env_vars, ip[k].strict)
           /\ res.exc = "ok" =>
                \A k \in refs :
                    /\ res.obj[k] = EnvVarSecret(ip[k].env_vars, ip[k].strict)
                    /\ res.obj.client.kw[k] = FirstSet(env, ip[k].env_vars)
           /\ (\E k \in refs : ip[k].strict /\ AllUnset(ip[k], env)) => res.exc # "ok"
           /\ res.exc = "ValueError:secret_unset" =>
                \E k \in refs : ip[k].strict /\ AllUnset(ip[k], env)

C8_Witness ==
    /\ res.op = "from_dict" /\ res.exc = "ValueError:secret_unset"
    /\ IsReference(res.before.init_parameters.api_key)
    /\ docs[res.doc].data.init_parameters.api_key = StrictKey
    /\ env["AZURE_OPENAI_API_KEY"] = None

\* C9: once constructed, a component (configuration and client) never changes,
\* whatever is called and however the environment changes; to_dict changes
\* nothing but the name its result is bound to, and returns the same document each
\* time; the component from_dict returns has a client no held component has.
C9_Immutable ==
    [][/\ \A s \in Slots : comps[s] # None => comps'[s] = comps[s]
       /\ res'.op = "to_dict" =>
            /\ env' = env /\ comps' = comps /\ nextId' = nextId
            /\ \A k \in DocIds \ {res'.doc} : docs'[k] = docs[k]
       /\ \A k1, k2 \in DocIds :
            (docs'[k1] # None /\ docs'[k2] # None /\ docs'[k1].src = docs'[k2].src)
                => docs'[k1].ret = docs'[k2].ret
       /\ (res'.op = "from_dict" /\ res'.exc = "ok") =>
            /\ res'.obj.client.id = nextId
            /\ \A s \in Slots :
                comps'[s] # None => res'.obj.client.id # comps'[s].obj.client.id
      ]_vars

C9_Witness ==
    /\ res.op = "from_dict" /\ res.exc = "ok"
    /\ comps["a"] # None /\ comps["a"].e # env
    /\ comps["a"].obj.streaming_callback = PrintChunk
    /\ docs["d1"] # None /\ docs["d2"] # None
    /\ docs["d1"].data # docs["d1"].ret
    /\ res.obj.client.kw.api_key # comps["a"].obj.client.kw.api_key

\* C10 as stated: from_dict leaves the document as it found it.
C10_DocumentUnchanged ==
    res.op = "from_dict" => docs[res.doc].data = res.before

\* C10 as amended: from_dict changes the document in place, but only its api_key,
\* azure_ad_token, streaming_callback and azure_ad_token_provider entries, and one
\* of these only when it was not None (not empty), putting the reconstructed
\* secret or the located callable in its place; after a successful call every
\* such entry has been replaced.
C10_OnlyDeserializedEntriesChange ==
    res.op = "from_dict" =>
        LET before == res.before
            after == docs[res.doc].data
        IN /\ DOMAIN after = DOMAIN before
           /\ after.type = before.type
           /\ "init_parameters" \in DOMAIN before =>
                LET ip == before.init_parameters
                    ipa == after.init_parameters
                IN /\ DOMAIN ipa = DOMAIN ip
                   /\ \A k \in DOMAIN ip :
                        ipa[k] # ip[k] =>
                            \/ k \in SecretKeys /\ ip[k] # None
                                /\ ipa[k] = Secret_from_dict(ip[k]).v
                            \/ k \in CallableKeys /\ Truthy(ip[k])
                                /\ ipa[k] = Function(ip[k].s)
                   /\ res.exc = "ok" =>
                        \A k \in DOMAIN ip :
                            \/ k \in SecretKeys /\ ip[k] # None
                            \/ k \in CallableKeys /\ Truthy(ip[k])
                            => ipa[k] # ip[k]

C10_Witness ==
    /\ res.op = "from_dict" /\ res.exc = "ok"
    /\ "azure_ad_token_provider" \in DOMAIN InitParametersOf(res.before)
    /\ res.before.init_parameters.azure_ad_token_provider = Str(<<"handlers.token_provider">>)
    /\ docs[res.doc].data.init_parameters.azure_ad_token_provider = TokenProvider
    /\ docs[res.doc].data.init_parameters.azure_ad_token = StrictToken

====
